---- MODULE Spec2Model ----
(***************************************************************************)
(* Model of dashboard_311_dec2025.py: a Streamlit script that builds six   *)
(* embedded tables, derives columns, builds eight plotly figures and       *)
(* renders them top to bottom.  The script is re-executed from its first   *)
(* line on every rerun.                                                    *)
(*                                                                         *)
(* Numbers that are floats in the script are fixed-point integers here:    *)
(*   - resolution_rate is held in tenths of a percent (round(1));          *)
(*   - pct is held in units of 10^-PctDigits percent, rounded to nearest;  *)
(*   - the values given to create_sparkline are multiples of 1/Den.        *)
(***************************************************************************)
EXTENDS Integers, Sequences, FiniteSets, TLC

VARIABLES pc, run, daily_data, complaint_data, agency_data, borough_data,
          borough_complaint, channel_data, df, metrics, status_breakdown, figs, rendered,
          weeks, week_matrix, hm, first_run_tables,
          sp_pc, sp_values, sp_height, sp_result

vars == <<pc, run, daily_data, complaint_data, agency_data, borough_data,
          borough_complaint, channel_data, df, metrics, status_breakdown, figs, rendered,
          weeks, week_matrix, hm, first_run_tables,
          sp_pc, sp_values, sp_height, sp_result>>

\* the state of a direct call of create_sparkline (specification SpecSpark)
sparkVars == <<sp_pc, sp_values, sp_height, sp_result>>

\* ---------------------------------------------------------------- bounds
MaxRuns == 3
PctDigits == 6
Den == 4
MaxLen == 3
MaxNum == 5

\* ------------------------------------------------------- generic helpers
RECURSIVE SumSeq(_)
SumSeq(s) == IF s = <<>> THEN 0 ELSE Head(s) + SumSeq(Tail(s))

Column(tbl, col) == [i \in DOMAIN tbl |-> tbl[i][col]]

Pow10(k) == IF k = 0 THEN 1 ELSE
            IF k = 1 THEN 10 ELSE
            IF k = 2 THEN 100 ELSE
            IF k = 3 THEN 1000 ELSE
            IF k = 4 THEN 10000 ELSE
            IF k = 5 THEN 100000 ELSE
            IF k = 6 THEN 1000000 ELSE 10000000

\* <<floor(num * 10^k / den), remainder>> by long division
RECURSIVE DivStep(_, _, _)
DivStep(num, den, k) ==
    IF k = 0 THEN <<num \div den, num % den>>
    ELSE LET p == DivStep(num, den, k - 1)
         IN  <<p[1] * 10 + (p[2] * 10) \div den, (p[2] * 10) % den>>

\* num / den with k decimals, round half to even, in units of 10^-k
RoundDiv(num, den, k) ==
    LET p == DivStep(num, den, k)
    IN  IF 2 * p[2] > den THEN p[1] + 1
        ELSE IF 2 * p[2] < den THEN p[1]
        ELSE IF p[1] % 2 = 0 THEN p[1] ELSE p[1] + 1

\* ----------------------------------------------------- embedded literals
daily_count_swapped ==
    <<12304, 12226, 12507, 13116, 13129, 11185, 10629, 12547, 14078, 12181,
      11675, 12034, 10474, 11274, 13946, 16388, 10499, 9555, 10170, 8484,
      8013, 10007, 8354, 7780, 6216, 8510, 7838, 8698, 9452, 10072, 8761>>

daily_count ==
    <<12304, 12226, 12507, 13116, 13129, 11185, 10629, 12547, 14078, 12181,
      11675, 12034, 10474, 11274, 16388, 13946, 10499, 9555, 10170, 8484,
      8013, 10007, 8354, 7780, 6216, 8510, 7838, 8698, 9452, 10072, 8761>>

complaint_type ==
    <<"Heat/Hot Water", "Noise - Residential", "Illegal Parking",
      "Blocked Driveway", "Unsanitary Condition", "Snow or Ice",
      "Plumbing", "Paint/Plaster", "Street Condition", "Noise - Street",
      "Door/Window", "Abandoned Vehicle", "Water System", "Traffic Signal",
      "Noise - Commercial">>
complaint_count ==
    <<63902, 57386, 44161, 16409, 9692, 8700, 6841, 5183, 4830, 4787,
      4707, 4576, 4202, 4152, 3964>>
complaint_closed ==
    <<63843, 57386, 44161, 16409, 5664, 8693, 4636, 3704, 4568, 4787,
      2887, 4576, 3873, 4148, 3964>>

agency_code ==
    <<"NYPD", "HPD", "DSNY", "DOT", "DEP", "DOB", "DPR", "DOHMH", "TLC", "DHS">>
agency_name ==
    <<"Police", "Housing", "Sanitation", "Transportation", "Environmental",
      "Buildings", "Parks", "Health", "Taxi/Limo", "Homeless Services">>
agency_count_typo ==
    <<147220, 105826, 27485, 16414, 12611, 7870, 5206, 5156, 3087, 2290>>

agency_count ==
    <<142720, 105826, 27485, 16414, 12611, 7870, 5206, 5156, 3087, 2290>>
agency_closed ==
    <<142720, 90340, 26633, 15014, 11939, 7870, 3440, 2648, 1007, 2263>>
\* median_hours in hundredths of an hour
agency_median_hours ==
    <<97, 5490, 4702, 4521, 2557, 2722, 4428, 1270, 3596, 2077>>

borough_name ==
    <<"Bronx", "Brooklyn", "Queens", "Manhattan", "Staten Island">>
borough_count == <<96322, 93503, 69534, 61500, 11009>>
borough_closed == <<90309, 86062, 64649, 53473, 10314>>
borough_median_hours == <<2238, 290, 328, 395, 2277>>

bc_borough ==
    <<"Bronx", "Bronx", "Brooklyn", "Brooklyn", "Manhattan", "Queens", "Queens">>
bc_complaint ==
    <<"Noise-Residential", "Heat/Hot Water", "Illegal Parking", "Heat/Hot Water",
      "Heat/Hot Water", "Illegal Parking", "Heat/Hot Water">>
bc_count == <<37472, 22787, 17623, 16866, 15586, 13828, 8141>>

channel_name == <<"Online", "Mobile", "Phone", "Unknown">>
channel_count == <<152801, 88719, 69946, 20636>>

\* --------------------------------------------------------- date helpers
\* pd.date_range('2025-12-01', '2025-12-31'): a date is its day of December
date_range == [d \in 1..31 |-> d]

\* .dt.dayofweek: Monday = 0; 2025-12-01 is a Monday
dayofweek(d) == (d - 1) % 7

DayNames == <<"Monday", "Tuesday", "Wednesday", "Thursday", "Friday",
              "Saturday", "Sunday">>
\* .dt.day_name()
day_name(d) == DayNames[dayofweek(d) + 1]

\* .dt.isocalendar().week for a date of December 2025 (2025 has 52 ISO
\* weeks; 1 December is day 335 of the year)
isocalendar_week(d) ==
    LET doy == 334 + d
        w   == (doy - (dayofweek(d) + 1) + 10) \div 7
    IN  IF w > 52 THEN 1 ELSE w

\* ------------------------------------------------------ DataFrame helpers
\* tbl[col] = series: adds the column, or overwrites it
WithColumn(tbl, col, series) ==
    [i \in DOMAIN tbl |-> (col :> series[i]) @@ tbl[i]]

\* the frame restricted to a set of columns
Project(tbl, cols) == [i \in DOMAIN tbl |-> [c \in cols |-> tbl[i][c]]]

Columns(tbl) == IF tbl = <<>> THEN {} ELSE DOMAIN tbl[1]

\* DataFrame.head(n)
head(tbl, n) == SubSeq(tbl, 1, IF Len(tbl) < n THEN Len(tbl) ELSE n)

\* inserts row r after the rows of the sorted frame s whose key is <= r's
RECURSIVE Insert(_, _, _)
Insert(s, r, col) ==
    IF s = <<>> THEN <<r>>
    ELSE IF r[col] < Head(s)[col] THEN <<r>> \o s
    ELSE <<Head(s)>> \o Insert(Tail(s), r, col)

\* DataFrame.sort_values(col), ascending; returns a new frame
RECURSIVE sort_values(_, _)
sort_values(tbl, col) ==
    IF tbl = <<>> THEN <<>>
    ELSE Insert(sort_values(SubSeq(tbl, 1, Len(tbl) - 1), col), tbl[Len(tbl)], col)

\* tbl[tbl[col] == v]
Where(tbl, col, v) == SelectSeq(tbl, LAMBDA r : r[col] = v)

\* Series.unique(): the distinct values in order of first appearance
RECURSIVE unique(_)
unique(s) ==
    IF s = <<>> THEN <<>>
    ELSE LET u == unique(SubSeq(s, 1, Len(s) - 1))
             x == s[Len(s)]
         IN  IF \E i \in DOMAIN u : u[i] = x THEN u ELSE Append(u, x)

\* sorted(iterable of numbers)
RECURSIVE sorted(_)
sorted(s) ==
    IF s = <<>> THEN <<>>
    ELSE LET t == sorted(SubSeq(s, 1, Len(s) - 1))
             x == s[Len(s)]
             k == Cardinality({i \in DOMAIN t : t[i] <= x})
         IN  SubSeq(t, 1, k) \o <<x>> \o SubSeq(t, k + 1, Len(t))

\* (closed / count * 100).round(1), in tenths of a percent
resolution_rate_inverted(row) == RoundDiv(row.count * 100, row.closed, 1)

resolution_rate_truncated(row) == DivStep(row.closed * 100, row.count, 1)[1]

resolution_rate(row) == RoundDiv(row.closed * 100, row.count, 1)

\* count - closed
open_count_swapped(row) == row.closed - row.count

open_count(row) == row.count - row.closed

\* ------------------------------------------------------------ data section
daily_frame ==
    LET base == [i \in 1..31 |-> [date |-> date_range[i], count |-> daily_count[i]]]
        dow  == WithColumn(base, "day_of_week",
                           [i \in DOMAIN base |-> day_name(base[i].date)])
    IN  WithColumn(dow, "week",
                   [i \in DOMAIN dow |-> isocalendar_week(dow[i].date)])

complaint_frame ==
    LET base == [i \in DOMAIN complaint_type |->
                    [complaint_type |-> complaint_type[i],
                     count |-> complaint_count[i],
                     closed |-> complaint_closed[i]]]
        rate == WithColumn(base, "resolution_rate",
                           [i \in DOMAIN base |-> resolution_rate(base[i])])
    IN  WithColumn(rate, "open", [i \in DOMAIN rate |-> open_count(rate[i])])

agency_frame ==
    LET base == [i \in DOMAIN agency_code |->
                    [agency |-> agency_code[i], name |-> agency_name[i],
                     count |-> agency_count[i], closed |-> agency_closed[i],
                     median_hours |-> agency_median_hours[i]]]
    IN  WithColumn(base, "resolution_rate",
                   [i \in DOMAIN base |-> resolution_rate(base[i])])

borough_frame ==
    LET base == [i \in DOMAIN borough_name |->
                    [borough |-> borough_name[i],
                     count |-> borough_count[i], closed |-> borough_closed[i],
                     median_hours |-> borough_median_hours[i]]]
    IN  WithColumn(base, "resolution_rate",
                   [i \in DOMAIN base |-> resolution_rate(base[i])])

borough_complaint_frame ==
    [i \in DOMAIN bc_borough |->
        [borough |-> bc_borough[i], complaint |-> bc_complaint[i],
         count |-> bc_count[i]]]

channel_frame ==
    [i \in DOMAIN channel_name |->
        [channel |-> channel_name[i], count |-> channel_count[i]]]

\* ------------------------------------------------------------- formatting
DigitChars == <<"0", "1", "2", "3", "4", "5", "6", "7", "8", "9">>

RECURSIVE Digits(_)
Digits(n) ==
    IF n < 10 THEN <<DigitChars[n + 1]>>
    ELSE Digits(n \div 10) \o <<DigitChars[(n % 10) + 1]>>

\* the digits of n with a comma between groups of three
RECURSIVE Grouped(_)
Grouped(n) ==
    IF n < 1000 THEN Digits(n)
    ELSE LET g == n % 1000
         IN  Grouped(n \div 1000) \o
             <<",", DigitChars[(g \div 100) + 1], DigitChars[((g \div 10) % 10) + 1],
               DigitChars[(g % 10) + 1]>>

\* f'{v:,.0f}' where v is a multiple of 1/Den: no decimals, round half to
\* even, thousands separators, the sign kept even when the result is 0
format_comma_0f(v) ==
    LET a == IF v < 0 THEN 0 - v ELSE v
        body == Grouped(RoundDiv(a, Den, 0))
    IN  IF v < 0 THEN <<"-">> \o body ELSE body

\* an integer count as the float the formatter receives
Num(c) == c * Den

\* ---------------------------------------------------------------- figures
COLORS == [primary |-> "#2c3e50", secondary |-> "#7f8c8d", accent |-> "#c0392b",
           success |-> "#27ae60", light |-> "#ecf0f1", text |-> "#333333"]

DefaultLayout ==
    [title |-> "", paper_bgcolor |-> "unset", plot_bgcolor |-> "unset",
     font |-> "unset", margin |-> [l |-> 80, r |-> 80, t |-> 100, b |-> 80],
     height |-> 450, showlegend |-> "unset", hovermode |-> "unset",
     barmode |-> "unset", xaxis |-> "unset", yaxis |-> "unset",
     annotations |-> <<>>]

\* go.Figure() with the given traces
Figure(traces) == [data |-> traces, layout |-> DefaultLayout]

\* fig.update_layout(**kw): the given properties replace the figure's
update_layout(fig, kw) == [fig EXCEPT !.layout = kw @@ fig.layout]

\* tufte_layout(fig, title, height); title = "" is title=None
tufte_layout_copy(fig, title, height) == fig

tufte_layout(fig, title, height) ==
    update_layout(fig,
        [title |-> title, paper_bgcolor |-> "white", plot_bgcolor |-> "white",
         font |-> "Georgia, serif",
         margin |-> [l |-> 40, r |-> 20, t |-> IF title # "" THEN 40 ELSE 20, b |-> 40],
         height |-> height, showlegend |-> "False", hovermode |-> "x unified",
         xaxis |-> "line, no grid", yaxis |-> "grid, no line"])

\* ndarray.min() / .max() of a non-empty array
Min(values) == CHOOSE m \in {values[i] : i \in DOMAIN values} :
                   \A i \in DOMAIN values : m <= values[i]
Max(values) == CHOOSE m \in {values[i] : i \in DOMAIN values} :
                   \A i \in DOMAIN values : m >= values[i]

\* ndarray.argmin() / .argmax(): the 0-based index of the first occurrence
LastIndex(values, v) ==
    (CHOOSE i \in DOMAIN values :
        values[i] = v /\ \A j \in (i + 1)..Len(values) : values[j] # v) - 1

FirstIndex(values, v) ==
    (CHOOSE i \in DOMAIN values :
        values[i] = v /\ \A j \in 1..(i - 1) : values[j] # v) - 1

argmin(values) == FirstIndex(values, Min(values))
argmax(values) == FirstIndex(values, Max(values))

\* create_sparkline(values, height): argmin/argmax raise ValueError on an
\* empty array, otherwise the figure is returned
create_sparkline(values, height) ==
    IF values = <<>> THEN [status |-> "ValueError"]
    ELSE
      [status |-> "ok",
       fig |-> update_layout(
          Figure(<<[mode |-> "lines", y |-> values],
                   [mode |-> "markers+text",
                    x |-> <<argmin(values), argmax(values)>>,
                    y |-> <<Min(values), Max(values)>>,
                    color |-> <<COLORS.accent, COLORS.success>>,
                    text |-> <<format_comma_0f(Min(values)),
                               format_comma_0f(Max(values))>>]>>),
          [paper_bgcolor |-> "white", plot_bgcolor |-> "white",
           margin |-> [l |-> 5, r |-> 5, t |-> 5, b |-> 5],
           height |-> height, showlegend |-> "False",
           xaxis |-> "hidden", yaxis |-> "hidden"])]

\* ------------------------------------------------------------ page state
Tables == <<daily_data, complaint_data, agency_data, borough_data,
            borough_complaint, channel_data>>

\* the names a run of the script starts with: Streamlit executes the script
\* from its first line in a new module namespace
KeepNamespace(prev) == prev

FreshNamespace(prev) == <<<<>>, <<>>, <<>>, <<>>, <<>>, <<>>>>

\* st.plotly_chart(fig, ...)
plotly_chart(name, fig) == Append(rendered, [name |-> name, fig |-> fig])

Init ==
    /\ pc = "daily_data"
    /\ run = 1
    /\ daily_data = <<>> /\ complaint_data = <<>> /\ agency_data = <<>>
    /\ borough_data = <<>> /\ borough_complaint = <<>> /\ channel_data = <<>>
    /\ df = <<>>
    /\ metrics = <<>>
    /\ status_breakdown = <<>>
    /\ figs = <<>>
    /\ rendered = <<>>
    /\ weeks = <<>>
    /\ week_matrix = <<>>
    /\ hm = [i |-> 0, k |-> 0]
    /\ first_run_tables = <<>>
    /\ sp_pc = "idle" /\ sp_values = <<>> /\ sp_height = 40
    /\ sp_result = [status |-> "none"]

pageVars == <<df, metrics, status_breakdown, figs, rendered, weeks, week_matrix, hm>>

\* lines 53-61
BuildDaily ==
    /\ pc = "daily_data"
    /\ daily_data' = daily_frame
    /\ pc' = "complaint_data"
    /\ UNCHANGED <<run, complaint_data, agency_data, borough_data,
                   borough_complaint, channel_data, pageVars, first_run_tables, sparkVars>>

\* lines 63-76
BuildComplaint ==
    /\ pc = "complaint_data"
    /\ complaint_data' = complaint_frame
    /\ pc' = "agency_data"
    /\ UNCHANGED <<run, daily_data, agency_data, borough_data,
                   borough_complaint, channel_data, pageVars, first_run_tables, sparkVars>>

\* lines 78-87
BuildAgency ==
    /\ pc = "agency_data"
    /\ agency_data' = agency_frame
    /\ pc' = "borough_data"
    /\ UNCHANGED <<run, daily_data, complaint_data, borough_data,
                   borough_complaint, channel_data, pageVars, first_run_tables, sparkVars>>

\* lines 89-96
BuildBorough ==
    /\ pc = "borough_data"
    /\ borough_data' = borough_frame
    /\ pc' = "borough_complaint"
    /\ UNCHANGED <<run, daily_data, complaint_data, agency_data,
                   borough_complaint, channel_data, pageVars, first_run_tables, sparkVars>>

\* lines 98-104
BuildBoroughComplaint ==
    /\ pc = "borough_complaint"
    /\ borough_complaint' = borough_complaint_frame
    /\ pc' = "channel_data"
    /\ UNCHANGED <<run, daily_data, complaint_data, agency_data,
                   borough_data, channel_data, pageVars, first_run_tables, sparkVars>>

\* lines 106-110
BuildChannel ==
    /\ pc = "channel_data"
    /\ channel_data' = channel_frame
    /\ pc' = "metrics"
    /\ UNCHANGED <<run, daily_data, complaint_data, agency_data,
                   borough_data, borough_complaint, pageVars, first_run_tables, sparkVars>>

\* the text of a literal such as "332,102", character by character
total_requests_text == <<"3", "3", "2", ",", "1", "0", "2">>
daily_avg_text == <<"1", "0", ",", "7", "1", "3">>
closed_text == <<"3", "0", "1", ",", "3", "5", "0">>
peak_text == <<"1", "6", ",", "3", "8", "8">>
low_text == <<"6", ",", "2", "1", "6">>

\* lines 192-220: st.title, st.markdown and the five st.metric callouts
KeyMetrics ==
    /\ pc = "metrics"
    /\ metrics' =
         <<[label |-> "Total Requests", value |-> total_requests_text,
            caption |-> daily_avg_text, day |-> 0],
           [label |-> "Resolution Rate", value |-> <<"9", "0", ".", "7", "%">>,
            caption |-> closed_text, day |-> 0],
           [label |-> "Median Response", value |-> <<"3", ".", "5">>,
            caption |-> <<>>, day |-> 0],
           [label |-> "Peak Day", value |-> <<"D", "e", "c", " ", "1", "5">>,
            caption |-> peak_text, day |-> 15],
           [label |-> "Low Day", value |-> <<"D", "e", "c", " ", "2", "5">>,
            caption |-> low_text, day |-> 25]>>
    /\ pc' = "sparkline"
    /\ UNCHANGED <<run, daily_data, complaint_data, agency_data, borough_data,
                   borough_complaint, channel_data, df, status_breakdown, figs,
                   rendered, weeks,
                   week_matrix, hm, first_run_tables, sparkVars>>

\* lines 222-228
RenderSparkline ==
    /\ pc = "sparkline"
    /\ LET r == create_sparkline([i \in DOMAIN daily_data |->
                                     Num(daily_data[i].count)], 60)
       IN  /\ r.status = "ok"
           /\ figs' = ("sparkline" :> r.fig) @@ figs
           /\ rendered' = plotly_chart("sparkline", r.fig)
    /\ pc' = "fig_complaints"
    /\ UNCHANGED <<run, daily_data, complaint_data, agency_data, borough_data,
                   borough_complaint, channel_data, df, metrics, status_breakdown, weeks,
                   week_matrix, hm, first_run_tables, sparkVars>>

\* fig.add_annotation(...)
add_annotation(fig, a) ==
    [fig EXCEPT !.layout.annotations = Append(@, a)]

\* lines 238-287: the stacked closed/open bar chart of the top 12 complaints
ComplaintsChart ==
    /\ pc = "fig_complaints"
    /\ LET d == sort_values(head(complaint_data, 12), "count")
           closed_bar == [type |-> "bar", y |-> Column(d, "complaint_type"),
                          x |-> Column(d, "closed"),
                          text |-> [j \in DOMAIN d |-> format_comma_0f(Num(d[j].closed))]]
           open_bar == [type |-> "bar", y |-> Column(d, "complaint_type"),
                        x |-> Column(d, "open"),
                        text |-> [j \in DOMAIN d |->
                                    IF d[j].open > 500
                                    THEN format_comma_0f(Num(d[j].open)) ELSE <<>>]]
           notes == [j \in DOMAIN d |->
                       [x |-> d[j].count + 1000, y |-> d[j].complaint_type,
                        text |-> RoundDiv(d[j].resolution_rate, 10, 0),
                        color |-> IF d[j].resolution_rate >= 950
                                  THEN COLORS.success ELSE COLORS.accent]]
           f0 == Figure(<<closed_bar, open_bar>>)
           f1 == [f0 EXCEPT !.layout.annotations = notes]
           f2 == update_layout(f1, [barmode |-> "stack"])
           f3 == tufte_layout(f2, "Top 12 Complaint Types (with resolution %)", 400)
       IN  /\ df' = d
           /\ figs' = ("fig_complaints" :> f3) @@ figs
           /\ rendered' = plotly_chart("fig_complaints", f3)
    /\ pc' = "channel_pct"
    /\ UNCHANGED <<run, daily_data, complaint_data, agency_data, borough_data,
                   borough_complaint, channel_data, metrics, status_breakdown, weeks,
                   week_matrix, hm, first_run_tables, sparkVars>>

\* line 292: total = channel_data['count'].sum()
channel_total_partial(tbl) == SumSeq(Column(head(tbl, Len(tbl) - 1), "count"))

channel_total(tbl) == SumSeq(Column(tbl, "count"))

\* line 293: channel_data['pct'] = channel_data['count'] / total * 100
with_pct_in_place(tbl, total) ==
    WithColumn(tbl, "count",
               [i \in DOMAIN tbl |-> RoundDiv(tbl[i].count * 100, total, PctDigits)])

with_pct(tbl, total) ==
    WithColumn(tbl, "pct",
               [i \in DOMAIN tbl |-> RoundDiv(tbl[i].count * 100, total, PctDigits)])

\* lines 290-293
ChannelPct ==
    /\ pc = "channel_pct"
    /\ channel_data' = with_pct(channel_data, channel_total(channel_data))
    /\ pc' = "fig_channel"
    /\ UNCHANGED <<run, daily_data, complaint_data, agency_data, borough_data,
                   borough_complaint, pageVars, first_run_tables, sparkVars>>

\* line 326: the Closed row of the Status Breakdown table
status_closed_text == <<"3", "0", "1", ",", "3", "5", "0">>

\* f"{pct:.0f}": the percentage with no decimals
pct_0f(pct) == RoundDiv(pct, Pow10(PctDigits), 0)

\* lines 295-338: the single stacked bar of channel shares, styled inline
ChannelChart ==
    /\ pc = "fig_channel"
    /\ LET colors == <<COLORS.primary, "#5d6d7e", "#85929e", COLORS.light>>
           bars == [i \in DOMAIN channel_data |->
                      [type |-> "bar", x |-> channel_data[i].pct,
                       color |-> colors[i],
                       label |-> channel_data[i].channel,
                       text |-> pct_0f(channel_data[i].pct)]]
           f == update_layout(Figure(bars),
                   [barmode |-> "stack", height |-> 80,
                    margin |-> [l |-> 0, r |-> 0, t |-> 0, b |-> 0],
                    paper_bgcolor |-> "white", plot_bgcolor |-> "white",
                    showlegend |-> "False", xaxis |-> "hidden", yaxis |-> "hidden"])
       IN  /\ figs' = ("fig_channel" :> f) @@ figs
           /\ rendered' = plotly_chart("fig_channel", f)
    /\ status_breakdown' =
         <<[status |-> "Closed", count |-> status_closed_text],
           [status |-> "Open", count |-> <<"1", "9", ",", "4", "6", "8">>],
           [status |-> "In Progress", count |-> <<"9", ",", "3", "0", "8">>],
           [status |-> "Other", count |-> <<"1", ",", "9", "7", "6">>]>>
    /\ pc' = "fig_agency"
    /\ UNCHANGED <<run, daily_data, complaint_data, agency_data, borough_data,
                   borough_complaint, channel_data, df, metrics, weeks,
                   week_matrix, hm, first_run_tables, sparkVars>>

\* lines 348-395: agency volume bars and median-response lollipops
AgencyChart ==
    /\ pc = "fig_agency"
    /\ LET d == sort_values(agency_data, "count")
           volume == [type |-> "bar", y |-> Column(d, "name"), x |-> Column(d, "count"),
                      text |-> [j \in DOMAIN d |-> format_comma_0f(Num(d[j].count))]]
           response == [type |-> "scatter", y |-> Column(d, "name"),
                        x |-> Column(d, "median_hours"),
                        color |-> [j \in DOMAIN d |->
                                     IF d[j].median_hours < 1000 THEN COLORS.success
                                     ELSE IF d[j].median_hours > 4000 THEN COLORS.accent
                                     ELSE COLORS.secondary]]
           f0 == Figure(<<volume, response>>)
           f1 == add_annotation(f0, [x |-> 24, y |-> "9.5", text |-> 24, color |-> "#999"])
           f2 == tufte_layout(f1, "Agency Performance", 350)
       IN  /\ df' = d
           /\ figs' = ("fig_agency" :> f2) @@ figs
           /\ rendered' = plotly_chart("fig_agency", f2)
    /\ pc' = "fig_borough"
    /\ UNCHANGED <<run, daily_data, complaint_data, agency_data, borough_data,
                   borough_complaint, channel_data, metrics, status_breakdown, weeks,
                   week_matrix, hm, first_run_tables, sparkVars>>

\* lines 397-431: one volume bar per borough
BoroughChart ==
    /\ pc = "fig_borough"
    /\ LET d == sort_values(borough_data, "count")
           bars == [j \in DOMAIN d |->
                      [type |-> "bar", y |-> d[j].borough, x |-> d[j].count,
                       text |-> format_comma_0f(Num(d[j].count))]]
           f == tufte_layout(Figure(bars), "Borough Volume", 250)
       IN  /\ df' = d
           /\ figs' = ("fig_borough" :> f) @@ figs
           /\ rendered' = plotly_chart("fig_borough", f)
    /\ pc' = "weekday_cols"
    /\ UNCHANGED <<run, daily_data, complaint_data, agency_data, borough_data,
                   borough_complaint, channel_data, metrics, status_breakdown, weeks,
                   week_matrix, hm, first_run_tables, sparkVars>>

\* lines 443-445: daily_data['day_num'], daily_data['weekday']
WeekdayColumns ==
    /\ pc = "weekday_cols"
    /\ daily_data' =
         WithColumn(WithColumn(daily_data, "day_num",
                               [i \in DOMAIN daily_data |-> daily_data[i].date]),
                    "weekday",
                    [i \in DOMAIN daily_data |-> dayofweek(daily_data[i].date)])
    /\ pc' = "weeks"
    /\ UNCHANGED <<run, complaint_data, agency_data, borough_data,
                   borough_complaint, channel_data, pageVars, first_run_tables, sparkVars>>

\* the rows of one ISO week, in weekday order
week_subset(week_num) == sort_values(Where(daily_data, "week", week_num), "weekday")

\* lines 447-451: the list of per-week count arrays, in order of appearance
WeeksList ==
    /\ pc = "weeks"
    /\ LET u == unique(Column(daily_data, "week"))
       IN  weeks' = [n \in DOMAIN u |-> Column(week_subset(u[n]), "count")]
    /\ pc' = "week_matrix"
    /\ UNCHANGED <<run, daily_data, complaint_data, agency_data, borough_data,
                   borough_complaint, channel_data, df, metrics, status_breakdown, figs, rendered,
                   week_matrix, hm, first_run_tables, sparkVars>>

day_labels == <<"Mon", "Tue", "Wed", "Thu", "Fri", "Sat", "Sun">>
week_labels == <<"Week 1", "Week 2", "Week 3", "Week 4", "Week 5">>

\* lines 453-456: week_matrix = np.zeros((5, 7))
ZeroMatrix ==
    /\ pc = "week_matrix"
    /\ week_matrix' = [i \in 1..5 |-> [j \in 1..7 |-> 0]]
    /\ hm' = [i |-> 0, k |-> 0]
    /\ pc' = "heatmap_fill"
    /\ UNCHANGED <<run, daily_data, complaint_data, agency_data, borough_data,
                   borough_complaint, channel_data, df, metrics, status_breakdown, figs, rendered,
                   weeks, first_run_tables, sparkVars>>

\* the order in which the fill loop visits the weeks (line 458)
week_order(tbl) == sorted(unique(Column(tbl, "week")))

\* lines 458-462: one iteration of the inner loop writes one day's count to
\* week_matrix[i, weekday]; i is the position of the week in week_order
HeatmapFill ==
    /\ pc = "heatmap_fill"
    /\ LET order == week_order(daily_data)
           sub == week_subset(order[hm.i + 1])
           row == sub[hm.k + 1]
       IN  /\ hm.i + 1 <= 5
           /\ week_matrix' = IF row.weekday < 7
                             THEN [week_matrix EXCEPT ![hm.i + 1][row.weekday + 1] = row.count]
                             ELSE week_matrix
           /\ IF hm.k + 1 < Len(sub)
              THEN hm' = [hm EXCEPT !.k = @ + 1] /\ pc' = pc
              ELSE IF hm.i + 1 < Len(order)
              THEN hm' = [i |-> hm.i + 1, k |-> 0] /\ pc' = pc
              ELSE hm' = hm /\ pc' = "fig_heatmap"
    /\ UNCHANGED <<run, daily_data, complaint_data, agency_data, borough_data,
                   borough_complaint, channel_data, df, metrics, status_breakdown, figs, rendered,
                   weeks, first_run_tables, sparkVars>>

\* lines 464-477
HeatmapChart ==
    /\ pc = "fig_heatmap"
    /\ LET z == [type |-> "heatmap", z |-> week_matrix, x |-> day_labels,
                 y |-> week_labels,
                 text |-> [i \in 1..5 |-> [j \in 1..7 |->
                             IF week_matrix[i][j] > 0
                             THEN Grouped(week_matrix[i][j]) ELSE <<>>]]]
           f == tufte_layout(Figure(<<z>>),
                             "Daily Volume by Week (darker = more requests)", 220)
       IN  /\ figs' = ("fig_heatmap" :> f) @@ figs
           /\ rendered' = plotly_chart("fig_heatmap", f)
    /\ pc' = "fig_dow"
    /\ UNCHANGED <<run, daily_data, complaint_data, agency_data, borough_data,
                   borough_complaint, channel_data, df, metrics, status_breakdown, weeks,
                   week_matrix, hm, first_run_tables, sparkVars>>

\* groupby('day_of_week')['count'].mean(), as <<sum, number of days>>
dow_avg(tbl) ==
    [n \in DOMAIN DayNames |->
        LET rows == Where(tbl, "day_of_week", DayNames[n])
        IN  <<SumSeq(Column(rows, "count")), Len(rows)>>]

\* lines 479-505
DowChart ==
    /\ pc = "fig_dow"
    /\ LET avg == dow_avg(daily_data)
           bar == [type |-> "bar", x |-> day_labels, y |-> avg,
                   color |-> [n \in DOMAIN DayNames |->
                                IF n <= 5 THEN COLORS.primary ELSE COLORS.secondary],
                   text |-> [n \in DOMAIN avg |->
                               Grouped(RoundDiv(avg[n][1], avg[n][2], 0))]]
           f == tufte_layout(Figure(<<bar>>), "Avg Volume by Day", 220)
       IN  /\ figs' = ("fig_dow" :> f) @@ figs
           /\ rendered' = plotly_chart("fig_dow", f)
    /\ pc' = "fig_boro_top"
    /\ UNCHANGED <<run, daily_data, complaint_data, agency_data, borough_data,
                   borough_complaint, channel_data, df, metrics, status_breakdown, weeks,
                   week_matrix, hm, first_run_tables, sparkVars>>

\* lines 519-525
borough_top ==
    <<[Borough |-> "Bronx", TopIssue |-> "Noise-Residential", Count |-> 37472, Pct |-> 389],
      [Borough |-> "Brooklyn", TopIssue |-> "Illegal Parking", Count |-> 17623, Pct |-> 188],
      [Borough |-> "Manhattan", TopIssue |-> "Heat/Hot Water", Count |-> 15586, Pct |-> 253],
      [Borough |-> "Queens", TopIssue |-> "Illegal Parking", Count |-> 13828, Pct |-> 199],
      [Borough |-> "Staten Island", TopIssue |-> "Illegal Parking", Count |-> 1331, Pct |-> 121]>>

\* lines 513-560
BoroTopChart ==
    /\ pc = "fig_boro_top"
    /\ LET bars == [i \in DOMAIN borough_top |->
                      [type |-> "bar", x |-> borough_top[i].Count,
                       y |-> borough_top[i].Borough,
                       color |-> IF borough_top[i].TopIssue # "Noise-Residential"
                                 THEN COLORS.primary ELSE COLORS.accent,
                       text |-> RoundDiv(borough_top[i].Pct, 10, 0)]]
           f0 == tufte_layout(Figure(bars), "", 220)
           f1 == update_layout(f0, [showlegend |-> "False"])
       IN  /\ figs' = ("fig_boro_top" :> f1) @@ figs
           /\ rendered' = plotly_chart("fig_boro_top", f1)
    /\ pc' = "footer"
    /\ UNCHANGED <<run, daily_data, complaint_data, agency_data, borough_data,
                   borough_complaint, channel_data, df, metrics, status_breakdown, weeks,
                   week_matrix, hm, first_run_tables, sparkVars>>

\* lines 562-574: the last statement of the script; first_run_tables records
\* what the tables held when the first run ended
Footer ==
    /\ pc = "footer"
    /\ pc' = "done"
    /\ first_run_tables' = IF run = 1 THEN Tables ELSE first_run_tables
    /\ UNCHANGED <<run, daily_data, complaint_data, agency_data, borough_data,
                   borough_complaint, channel_data, pageVars, sparkVars>>

\* a user interaction: the whole script runs again from line 1
Rerun ==
    /\ pc = "done"
    /\ run < MaxRuns
    /\ run' = run + 1
    /\ pc' = "daily_data"
    /\ LET ns == FreshNamespace(Tables)
       IN  /\ daily_data' = ns[1] /\ complaint_data' = ns[2]
           /\ agency_data' = ns[3] /\ borough_data' = ns[4]
           /\ borough_complaint' = ns[5] /\ channel_data' = ns[6]
    /\ df' = <<>> /\ metrics' = <<>> /\ figs' = <<>> /\ rendered' = <<>>
    /\ status_breakdown' = <<>>
    /\ weeks' = <<>> /\ week_matrix' = <<>> /\ hm' = [i |-> 0, k |-> 0]
    /\ UNCHANGED <<first_run_tables, sparkVars>>

Next ==
    \/ BuildDaily \/ BuildComplaint \/ BuildAgency \/ BuildBorough
    \/ BuildBoroughComplaint \/ BuildChannel
    \/ KeyMetrics \/ RenderSparkline \/ ComplaintsChart
    \/ ChannelPct \/ ChannelChart \/ AgencyChart \/ BoroughChart
    \/ WeekdayColumns \/ WeeksList \/ ZeroMatrix \/ HeatmapFill \/ HeatmapChart
    \/ DowChart \/ BoroTopChart \/ Footer \/ Rerun

Spec == Init /\ [][Next]_vars

\* ------------------------------------------- create_sparkline called alone
\* the arrays of at most MaxLen numbers, each a multiple of 1/Den between
\* -MaxNum/Den and MaxNum/Den
Arrays == UNION {[1..n -> (0 - MaxNum)..MaxNum] : n \in 0..MaxLen}

InitSpark ==
    /\ pc = "idle" /\ run = 1
    /\ daily_data = <<>> /\ complaint_data = <<>> /\ agency_data = <<>>
    /\ borough_data = <<>> /\ borough_complaint = <<>> /\ channel_data = <<>>
    /\ df = <<>> /\ metrics = <<>> /\ figs = <<>> /\ rendered = <<>>
    /\ status_breakdown = <<>>
    /\ weeks = <<>> /\ week_matrix = <<>> /\ hm = [i |-> 0, k |-> 0]
    /\ first_run_tables = <<>>
    /\ sp_pc = "call"
    /\ sp_values \in Arrays
    /\ sp_height \in {40, 60}
    /\ sp_result = [status |-> "none"]

mainVars == <<pc, run, daily_data, complaint_data, agency_data, borough_data,
              borough_complaint, channel_data, df, metrics, status_breakdown, figs, rendered,
              weeks, week_matrix, hm, first_run_tables>>

\* lines 155-186 on a non-empty array: the figure is returned
SparkReturn ==
    /\ sp_pc = "call"
    /\ create_sparkline(sp_values, sp_height).status = "ok"
    /\ sp_result' = create_sparkline(sp_values, sp_height)
    /\ sp_pc' = "returned"
    /\ UNCHANGED <<sp_values, sp_height, mainVars>>

\* line 166 on an empty array: argmin raises ValueError
SparkRaise ==
    /\ sp_pc = "call"
    /\ create_sparkline(sp_values, sp_height).status = "ValueError"
    /\ sp_result' = create_sparkline(sp_values, sp_height)
    /\ sp_pc' = "raised"
    /\ UNCHANGED <<sp_values, sp_height, mainVars>>

NextSpark == SparkReturn \/ SparkRaise

SpecSpark == InitSpark /\ [][NextSpark]_vars

\* ------------------------------------------------------------ properties
\* the number a text of digits and thousands separators stands for
RECURSIVE ParseDigits(_)
ParseDigits(t) ==
    IF t = <<>> THEN 0
    ELSE LET c == t[Len(t)]
             rest == ParseDigits(SubSeq(t, 1, Len(t) - 1))
         IN  IF c = "," THEN rest
             ELSE rest * 10 + ((CHOOSE d \in 1..10 : DigitChars[d] = c) - 1)

ParseNumber(t) ==
    IF t # <<>> /\ Head(t) = "-" THEN 0 - ParseDigits(Tail(t)) ELSE ParseDigits(t)

Abs(x) == IF x < 0 THEN 0 - x ELSE x

DataSection == {"daily_data", "complaint_data", "agency_data", "borough_data",
                "borough_complaint", "channel_data"}

\* the page shows the "Total Requests" metric and both tables are built
TotalsShown == metrics # <<>> /\ agency_data # <<>> /\ borough_data # <<>>

\* C1 (as claimed): the borough counts and the agency counts add up to the
\* same number, and that number is the grand total the page displays.
C1_TotalsEqual ==
    TotalsShown =>
        /\ SumSeq(Column(borough_data, "count")) = SumSeq(Column(agency_data, "count"))
        /\ format_comma_0f(Num(SumSeq(Column(borough_data, "count")))) = metrics[1].value
        /\ format_comma_0f(Num(SumSeq(Column(agency_data, "count")))) = metrics[1].value

\* C1 (amended): the agency counts add up to 328,665 and the borough counts
\* to 331,868; each is less than the grand total the page displays.
C1_TotalsBelowPublished ==
    TotalsShown =>
        /\ SumSeq(Column(agency_data, "count")) = 328665
        /\ SumSeq(Column(borough_data, "count")) = 331868
        /\ SumSeq(Column(agency_data, "count")) < ParseNumber(metrics[1].value)
        /\ SumSeq(Column(borough_data, "count")) < ParseNumber(metrics[1].value)

C1_Witness == TotalsShown /\ pc = "sparkline" /\ ParseNumber(metrics[1].value) = 332102

\* C2 (as claimed): after the data section no step of the page assembly
\* changes any of the six tables.
C2_NoMutation ==
    [][(pc \notin DataSection /\ pc # "done") => Tables' = Tables]_vars

\* a step keeps every row and every existing column of the table and adds
\* at most the columns in new
OnlyAdds(before, after, new) ==
    /\ Len(after) = Len(before)
    /\ Columns(before) \subseteq Columns(after)
    /\ Columns(after) \ Columns(before) \subseteq new
    /\ Project(after, Columns(before)) = before

\* C2 (amended): after the data section no step changes or removes a row or
\* an existing column of any table; the page assembly only adds the column
\* pct to the channel table and the columns day_num and weekday to the daily
\* table, and leaves the four other tables as built.
C2_OnlyDerivedColumnsAdded ==
    [][(pc \notin DataSection /\ pc # "done") =>
          /\ UNCHANGED <<complaint_data, agency_data, borough_data, borough_complaint>>
          /\ OnlyAdds(channel_data, channel_data', {"pct"})
          /\ OnlyAdds(daily_data, daily_data', {"day_num", "weekday"})]_vars

C2_Witness ==
    /\ pc = "weeks"
    /\ "pct" \in Columns(channel_data)
    /\ {"day_num", "weekday"} \subseteq Columns(daily_data)

\* what only tufte_layout sets on a figure
TufteStyled(fig) ==
    /\ fig.layout.font = "Georgia, serif"
    /\ fig.layout.hovermode = "x unified"
    /\ fig.layout.xaxis = "line, no grid"
    /\ fig.layout.yaxis = "grid, no line"

\* C3 (as claimed): every figure handed to st.plotly_chart has had
\* tufte_layout applied to it.
C3_EveryChartStyled ==
    \A i \in DOMAIN rendered : TufteStyled(rendered[i].fig)

\* C3 (amended): tufte_layout has been applied before rendering to the six
\* figures fig_complaints, fig_agency, fig_borough, fig_heatmap, fig_dow and
\* fig_boro_top; the sparkline and fig_channel are rendered with their own
\* inline layout, without tufte_layout.
C3_AllButSparklineAndChannelStyled ==
    \A i \in DOMAIN rendered :
        TufteStyled(rendered[i].fig) <=>
            rendered[i].name \notin {"sparkline", "fig_channel"}

C3_Witness ==
    /\ pc = "done"
    /\ {rendered[i].name : i \in DOMAIN rendered} =
         {"sparkline", "fig_complaints", "fig_channel", "fig_agency",
          "fig_borough", "fig_heatmap", "fig_dow", "fig_boro_top"}

Markers == sp_result.fig.data[2]

\* index i (0-based) is the first place where the array holds its smallest /
\* largest value
FirstSmallest(values, i) ==
    /\ i + 1 \in DOMAIN values
    /\ \A j \in DOMAIN values : values[i + 1] <= values[j]
    /\ \A j \in 1..i : values[j] # values[i + 1]

FirstLargest(values, i) ==
    /\ i + 1 \in DOMAIN values
    /\ \A j \in DOMAIN values : values[i + 1] >= values[j]
    /\ \A j \in 1..i : values[j] # values[i + 1]

MarkersPlaced ==
    /\ sp_pc = "returned"
    /\ Len(sp_result.fig.data) = 2
    /\ Len(Markers.x) = 2 /\ Len(Markers.y) = 2 /\ Len(Markers.text) = 2
    /\ FirstSmallest(sp_values, Markers.x[1])
    /\ FirstLargest(sp_values, Markers.x[2])

\* C5 (as claimed): on every non-empty array create_sparkline returns, marks
\* the first smallest and the first largest value, and the number written in
\* each marker's label is the array's value at the marker's index.
C5_LabelsEqualValues ==
    (sp_pc # "call" /\ sp_values # <<>>) =>
        /\ MarkersPlaced
        /\ \A k \in 1..2 :
              Num(ParseNumber(Markers.text[k])) = sp_values[Markers.x[k] + 1]

\* C5 (amended): on every non-empty array create_sparkline returns and marks
\* exactly two points, the first smallest and the first largest value; each
\* marker's y-coordinate is the array's value at the marker's index, and its
\* label is that value written with no decimals: the nearest whole number,
\* equal to the value only when the value is whole.
C5_LabelsAreRoundedValues ==
    (sp_pc # "call" /\ sp_values # <<>>) =>
        /\ MarkersPlaced
        /\ \A k \in 1..2 :
              LET v == sp_values[Markers.x[k] + 1]
                  n == ParseNumber(Markers.text[k])
              IN  /\ Markers.y[k] = v
                  /\ 2 * Abs(n * Den - v) <= Den
                  /\ (v % Den = 0 => Num(n) = v)

\* a returned sparkline of an array with repeated extremes and a value that
\* is not whole
C5_Witness ==
    /\ sp_pc = "returned"
    /\ Len(sp_values) = 3
    /\ sp_values[1] = sp_values[3] /\ sp_values[2] < sp_values[1]
    /\ sp_values[1] % Den # 0
    /\ Markers.x = <<1, 0>>

RateTables == <<complaint_data, agency_data, borough_data>>

RateRows == UNION {{RateTables[t][i] : i \in DOMAIN RateTables[t]} : t \in 1..3}

\* C6: in every row of the complaint, agency and borough tables count and
\* closed are non-negative integers, count > 0, closed <= count, and the
\* resolution rate lies between 0 and 100 percent.
C6_CountsAndRatesBounded ==
    \A r \in RateRows :
        /\ r.count \in Nat /\ r.closed \in Nat
        /\ r.count > 0
        /\ r.closed <= r.count
        /\ 0 <= r.resolution_rate /\ r.resolution_rate <= 1000

C6_Witness ==
    /\ pc = "borough_complaint"
    /\ \A t \in 1..3 : RateTables[t] # <<>>
    /\ \E r \in RateRows : r.closed = r.count /\ r.resolution_rate = 1000
    /\ \E r \in RateRows : r.closed < r.count /\ r.resolution_rate < 1000

\* C7: in every row with a resolution rate, the rate is the number with one
\* decimal nearest to closed / count * 100.
C7_RateIsRoundedQuotient ==
    \A r \in RateRows :
        2 * Abs(r.resolution_rate * r.count - r.closed * 1000) <= r.count

C7_Witness ==
    /\ pc = "borough_complaint"
    /\ \E r \in RateRows : r.resolution_rate * r.count > r.closed * 1000
    /\ \E r \in RateRows : r.resolution_rate * r.count < r.closed * 1000

IsAscending(tbl, col) == \A j \in 1..(Len(tbl) - 1) : tbl[j][col] <= tbl[j + 1][col]

\* C8: closed + open = count in every complaint row, in each of the 12 rows
\* selected and sorted for the stacked bar chart, and in the chart's bars.
C8_ClosedPlusOpenIsCount ==
    /\ \A i \in DOMAIN complaint_data :
          complaint_data[i].closed + complaint_data[i].open = complaint_data[i].count
    /\ pc = "channel_pct" =>
          /\ Len(df) = 12
          /\ IsAscending(df, "count")
          /\ \A j \in DOMAIN df :
                /\ \E i \in 1..12 : df[j] = complaint_data[i]
                /\ df[j].closed + df[j].open = df[j].count
    /\ "fig_complaints" \in DOMAIN figs =>
          LET f == figs["fig_complaints"]
          IN  \A j \in 1..12 :
                 f.data[1].x[j] + f.data[2].x[j] = f.layout.annotations[j].x - 1000

C8_Witness ==
    /\ pc = "channel_pct"
    /\ Len(df) = 12
    /\ df[1].count < df[12].count
    /\ \E j \in DOMAIN df : df[j].open > 0

\* C9: the pct column of the channel table adds up to 100 within the
\* rounding error of its rows (half a unit of the last digit per row).
C9_PctSumsTo100 ==
    "pct" \in Columns(channel_data) =>
        2 * Abs(SumSeq(Column(channel_data, "pct")) - 100 * Pow10(PctDigits))
            <= Len(channel_data)

C9_Witness ==
    /\ pc = "fig_channel"
    /\ "pct" \in Columns(channel_data)
    /\ Len(channel_data) = 4

\* the row of week_matrix that holds the count of the daily row d
RowOf(d) ==
    CHOOSE i \in 1..5 : week_matrix[i][daily_data[d].weekday + 1] = daily_data[d].count

\* C10 (as claimed): the filled heatmap matrix is in calendar order: of two
\* dates in different weeks the earlier is in the row with the smaller
\* index; "Week 1" holds 1-7 December and "Week 5" holds 29-31 December.
C10_CalendarOrder ==
    pc = "fig_heatmap" =>
        /\ \A d1, d2 \in DOMAIN daily_data :
              (daily_data[d1].date < daily_data[d2].date
                 /\ daily_data[d1].week # daily_data[d2].week)
              => RowOf(d1) < RowOf(d2)
        /\ week_matrix[1] = SubSeq(daily_count, 1, 7)
        /\ week_matrix[5] = SubSeq(daily_count, 29, 31) \o <<0, 0, 0, 0>>


\* the days (of December) on which the daily table holds the count c
DaysWithCount(c) ==
    {daily_data[i].date : i \in {j \in DOMAIN daily_data : daily_data[j].count = c}}

\* the day of the month a text such as "Dec 15" names
DayNamed(t) == ParseDigits(SubSeq(t, 5, Len(t)))

DailyCounts == Column(daily_data, "count")

\* C11: once the sparkline is rendered, the headline figures agree with the
\* daily table: the counts add up to the displayed total, their mean rounds
\* to the displayed daily average, the displayed peak and low are the largest
\* and smallest count, each on the one day the page names, and the
\* sparkline's maximum and minimum markers are on those days.
C11_HeadlinesMatchDaily ==
    "sparkline" \in DOMAIN figs =>
        LET total == SumSeq(DailyCounts)
            peak == ParseNumber(metrics[4].caption)
            low == ParseNumber(metrics[5].caption)
            m == figs["sparkline"].data[2]
        IN  /\ total = 332102
            /\ format_comma_0f(Num(total)) = metrics[1].value
            /\ Grouped(RoundDiv(total, Len(daily_data), 0)) = metrics[1].caption
            /\ peak = 16388 /\ low = 6216
            /\ \A i \in DOMAIN daily_data :
                  low <= daily_data[i].count /\ daily_data[i].count <= peak
            /\ DaysWithCount(peak) = {DayNamed(metrics[4].value)}
            /\ DaysWithCount(low) = {DayNamed(metrics[5].value)}
            /\ DayNamed(metrics[4].value) = 15 /\ DayNamed(metrics[5].value) = 25
            /\ daily_data[m.x[2] + 1].date = DayNamed(metrics[4].value)
            /\ daily_data[m.x[1] + 1].date = DayNamed(metrics[5].value)
            /\ m.text = <<metrics[5].caption, metrics[4].caption>>

C11_Witness ==
    /\ pc = "fig_complaints"
    /\ "sparkline" \in DOMAIN figs
    /\ figs["sparkline"].data[2].x = <<24, 14>>
    /\ Len(metrics) = 5

\* C12 (as claimed): the closed counts of the agency table and of the
\* borough table each add up to no more than the closed total the page
\* displays (the Resolution Rate caption and the Status Breakdown table).
C12_ClosedWithinPublished ==
    (status_breakdown # <<>> /\ metrics # <<>>) =>
        /\ SumSeq(Column(agency_data, "closed")) <= ParseNumber(metrics[2].caption)
        /\ SumSeq(Column(borough_data, "closed")) <= ParseNumber(metrics[2].caption)
        /\ SumSeq(Column(agency_data, "closed")) <= ParseNumber(status_breakdown[1].count)
        /\ SumSeq(Column(borough_data, "closed")) <= ParseNumber(status_breakdown[1].count)

====
